---- MODULE Spec2Model ----
(***************************************************************************)
(* A model of r3::UDPSocket and r3::IPv4Address (include/Socket.hpp,       *)
(* src/Socket.cpp): a move-only owning handle over an OS datagram socket.  *)
(*                                                                         *)
(* The program's objects are the UDPSocket handles a caller holds (a       *)
(* bounded number of slots, each either not constructed / destroyed or     *)
(* alive with the four members of the class) and the kernel's view of the  *)
(* process: the descriptor table with, per descriptor, the name it is      *)
(* bound to and its socket options.  Every public method is one action.    *)
(* Each action leaves the call in `call', what it returned in `ret' and    *)
(* the system calls it made in `syscalls'.                                 *)
(***************************************************************************)
EXTENDS Integers, Sequences, FiniteSets, TLC

\* Number of UDPSocket objects the caller can hold at once; the descriptor
\* table of the process has as many entries.
MaxHandles == 2

Handles == 1..MaxHandles
FDs == 0..(MaxHandles - 1)

\* Input values the caller passes.
kLocalHost == <<127, 0, 0, 1>>
kAny == <<0, 0, 0, 0>>
Addresses == {kLocalHost, <<192, 168, 1, 100>>}
Ports == {0, 8080}
\* Ports the kernel hands out when asked for port 0.
EphemeralPorts == {49152}
\* Senders of the datagrams the kernel delivers: address bytes as they are on
\* the wire, and source port.
DatagramSizes == {5}
\* Where the caller sends datagrams to.
Destinations == {[address |-> kLocalHost, port |-> 8080],
                 [address |-> <<255, 255, 255, 255>>, port |-> 9999]}
Senders == {[addr |-> <<127, 0, 0, 1>>, port |-> 49152],
            [addr |-> <<10, 0, 2, 15>>, port |-> 8080]}
\* Octets of the addresses that are formatted, parsed and converted: one, two
\* and three decimal digits, and the ends of the range.
Octets == {0, 7, 10, 99, 100, 255}
OctetQuads == {<<a, b, c, d>> : a \in Octets, b \in Octets, c \in Octets, d \in Octets}
\* Values of type SocketError passed to to_string: the ten enumerators
\* (0 .. 9) and values that are none of them.
ErrorValues == -1..11
\* The timeouts the caller sets: none, 5 s, 100 ms.
Timeouts == {[tv_sec |-> 0, tv_usec |-> 0], [tv_sec |-> 5, tv_usec |-> 0],
             [tv_sec |-> 0, tv_usec |-> 100000]}

VARIABLES
    littleEndian,   \* byte order of the host the program was built for
    handles,        \* the caller's UDPSocket objects
    os,             \* the kernel's descriptor table
    badClose,       \* ::close was called on a descriptor that is not open
    call,           \* the last call: method, object and arguments
    ret,            \* what the last call returned
    syscalls        \* the system calls the last call made, in order

vars == <<littleEndian, handles, os, badClose, call, ret, syscalls>>

----------------------------------------------------------------------------
(* Integers of fixed width and their image in memory *)

\* A uint32_t is its four base-256 digits, most significant first: the value
\* <<d3, d2, d1, d0>> is d3 * 2^24 + d2 * 2^16 + d1 * 2^8 + d0.  A uint16_t is
\* an integer in 0..65535.
Pow8 == 2^8

\* (v >> 8*i) & 0xFF
Byte(v, i) == v[4 - i]
\* (b0 << 0) | (b1 << 8) | (b2 << 16) | (b3 << 24)
Pack32(b0, b1, b2, b3) == <<b3, b2, b1, b0>>

\* Byte-swap of a 32-bit and of a 16-bit value.
bswap32(v) == Pack32(Byte(v, 3), Byte(v, 2), Byte(v, 1), Byte(v, 0))
bswap16(v) == (v % Pow8) * Pow8 + (v \div Pow8)

\* <arpa/inet.h>: the identity on a big-endian host, a byte swap on a
\* little-endian one.
htonl(v) == IF littleEndian THEN bswap32(v) ELSE v
ntohl(v) == IF littleEndian THEN bswap32(v) ELSE v
htons(v) == IF littleEndian THEN bswap16(v) ELSE v
ntohs(v) == IF littleEndian THEN bswap16(v) ELSE v

\* The bytes of a uint32_t / uint16_t object in memory order, which is what
\* the kernel reads from and writes to a struct sockaddr_in.
MemBytes32(v) ==
    IF littleEndian THEN <<Byte(v, 0), Byte(v, 1), Byte(v, 2), Byte(v, 3)>>
    ELSE <<Byte(v, 3), Byte(v, 2), Byte(v, 1), Byte(v, 0)>>
MemBytes16(v) ==
    IF littleEndian THEN <<v % Pow8, v \div Pow8>>
    ELSE <<v \div Pow8, v % Pow8>>
FromMem32(b) ==
    IF littleEndian THEN Pack32(b[1], b[2], b[3], b[4])
    ELSE Pack32(b[4], b[3], b[2], b[1])
FromMem16(b) ==
    IF littleEndian THEN b[1] + b[2] * Pow8
    ELSE b[2] + b[1] * Pow8

----------------------------------------------------------------------------
(* IPv4Address: octets[0..3] are a[1..4] *)

\* IPv4Address::IPv4Address(uint32_t)
IPv4Address_from_uint32(addr) ==
    <<Byte(addr, 0), Byte(addr, 1), Byte(addr, 2), Byte(addr, 3)>>

\* A to_uint32 that puts octets[0] in the high byte.
to_uint32_high_byte_first(a) == Pack32(a[4], a[3], a[2], a[1])

\* IPv4Address::to_uint32
to_uint32(a) == Pack32(a[1], a[2], a[3], a[4])

\* A std::string is the sequence of its characters.
DigitChars == <<"0", "1", "2", "3", "4", "5", "6", "7", "8", "9">>
IsDigit(ch) == \E i \in 1..Len(DigitChars) : DigitChars[i] = ch
DigitValue(ch) == (CHOOSE i \in 1..Len(DigitChars) : DigitChars[i] = ch) - 1

\* operator<<(std::ostream &, int) for a value that is not negative: its
\* decimal digits, no padding.
RECURSIVE Decimal(_)
Decimal(n) ==
    IF n < 10 THEN <<DigitChars[n + 1]>>
    ELSE Decimal(n \div 10) \o <<DigitChars[(n % 10) + 1]>>

\* IPv4Address::to_string
IPv4Address_to_string(a) ==
    Decimal(a[1]) \o <<".">> \o Decimal(a[2]) \o <<".">> \o
    Decimal(a[3]) \o <<".">> \o Decimal(a[4])

\* inet_pton(AF_INET, src, &addr): dotted decimal, four numbers of at most
\* 255 without leading zero.  p is the parser's state after i characters:
\* tmp the numbers read, saw_digit whether the current number has a digit.
\* The result is 1 and the four bytes, which it writes to addr in that order
\* (network byte order), or 0.
RECURSIVE inet_pton_from(_, _, _)
inet_pton_from(src, i, p) ==
    IF i > Len(src)
    THEN IF Len(p.tmp) < 4 THEN [rc |-> 0, bytes |-> <<>>]
         ELSE [rc |-> 1, bytes |-> p.tmp]
    ELSE
    LET ch == src[i]
        octets == Len(p.tmp)
    IN  IF IsDigit(ch)
        THEN IF ~p.saw_digit
             THEN IF octets + 1 > 4 THEN [rc |-> 0, bytes |-> <<>>]
                  ELSE inet_pton_from(src, i + 1,
                           [tmp |-> Append(p.tmp, DigitValue(ch)), saw_digit |-> TRUE])
             ELSE LET new == p.tmp[octets] * 10 + DigitValue(ch) IN
                  IF p.tmp[octets] = 0 \/ new > 255 THEN [rc |-> 0, bytes |-> <<>>]
                  ELSE inet_pton_from(src, i + 1,
                           [p EXCEPT !.tmp = [p.tmp EXCEPT ![octets] = new]])
        ELSE IF ch = "." /\ p.saw_digit
        THEN IF octets = 4 THEN [rc |-> 0, bytes |-> <<>>]
             ELSE inet_pton_from(src, i + 1, [p EXCEPT !.saw_digit = FALSE])
        ELSE [rc |-> 0, bytes |-> <<>>]
inet_pton(src) == inet_pton_from(src, 1, [tmp |-> <<>>, saw_digit |-> FALSE])

\* IPv4Address::from_string: the error kind, and the address when there is
\* one.  addr.s_addr is read as a uint32_t of the host.
IPv4Address_from_string(addr_str) ==
    LET addr == inet_pton(addr_str) IN
    IF addr.rc <= 0 THEN [res |-> "kAddressParseError", val |-> <<>>]
    ELSE LET network_addr == FromMem32(addr.bytes) IN
         [res |-> "ok",
          val |-> <<Byte(network_addr, 0), Byte(network_addr, 1),
                    Byte(network_addr, 2), Byte(network_addr, 3)>>]

----------------------------------------------------------------------------
(* SocketError *)

\* enum class SocketError: the enumerators in declaration order; the value
\* of the i-th is i - 1.
SocketError ==
    <<"kInvalidSocket", "kBindFailed", "kConnectFailed", "kSendFailed",
      "kReceiveFailed", "kInvalidAddress", "kSocketOptionFailed", "kNotBound",
      "kAddressParseError", "kTrainOrderParseError">>
Enumerator(error) ==
    IF error + 1 \in 1..Len(SocketError) THEN SocketError[error + 1] ELSE "none"

\* A to_string(SocketError) without the case for kAddressParseError.
SocketError_to_string_without_parse_case(error) ==
    LET e == Enumerator(error) IN
    CASE e = "kInvalidSocket" -> "Invalid socket"
      [] e = "kBindFailed" -> "Bind operation failed"
      [] e = "kConnectFailed" -> "Connect operation failed"
      [] e = "kSendFailed" -> "Send operation failed"
      [] e = "kReceiveFailed" -> "Receive operation failed"
      [] e = "kInvalidAddress" -> "Invalid address"
      [] e = "kSocketOptionFailed" -> "Socket option operation failed"
      [] e = "kNotBound" -> "Socket not bound"
      [] OTHER -> "Unknown error"

\* r3::to_string(SocketError)
SocketError_to_string(error) ==
    LET e == Enumerator(error) IN
    CASE e = "kInvalidSocket" -> "Invalid socket"
      [] e = "kBindFailed" -> "Bind operation failed"
      [] e = "kConnectFailed" -> "Connect operation failed"
      [] e = "kSendFailed" -> "Send operation failed"
      [] e = "kReceiveFailed" -> "Receive operation failed"
      [] e = "kInvalidAddress" -> "Invalid address"
      [] e = "kSocketOptionFailed" -> "Socket option operation failed"
      [] e = "kNotBound" -> "Socket not bound"
      [] e = "kAddressParseError" -> "Address parsing error"
      [] OTHER -> "Unknown error"

----------------------------------------------------------------------------
(* The kernel: descriptor table, socket names, socket options *)

\* A struct sockaddr_in as the kernel sees it: the bytes of sin_addr and of
\* sin_port in memory order, i.e. as they go on the wire.
NoName == [addr |-> <<>>, port |-> <<>>]
WireName(sa) == [addr |-> MemBytes32(sa.s_addr), port |-> MemBytes16(sa.sin_port)]
\* The port a wire name denotes (big-endian).
WirePort(n) == n.port[1] * Pow8 + n.port[2]
PortBytes(p) == <<(p \div Pow8) % 256, p % 256>>

NoTimeout == [tv_sec |-> 0, tv_usec |-> 0]
ClosedFd == [open |-> FALSE, bound |-> FALSE, name |-> NoName,
             rcvtimeo |-> NoTimeout, sndtimeo |-> NoTimeout,
             broadcast |-> FALSE, reuseaddr |-> FALSE]

\* socket(AF_INET, SOCK_DGRAM, 0): the lowest descriptor that is not open,
\* or -1 (no descriptor left, or any other failure the kernel reports).
FreeFds(o) == {fd \in FDs : ~o[fd].open}
sys_socket_fd(o, ok) ==
    IF ok /\ FreeFds(o) # {}
    THEN CHOOSE fd \in FreeFds(o) : \A g \in FreeFds(o) : fd <= g
    ELSE -1
sys_socket_os(o, fd) ==
    IF fd = -1 THEN o ELSE [o EXCEPT ![fd] = [ClosedFd EXCEPT !.open = TRUE]]

\* ::close(fd): releases an open descriptor; EBADF on anything else.
sys_close_os(o, fd) ==
    IF fd \in FDs /\ o[fd].open THEN [o EXCEPT ![fd] = ClosedFd] ELSE o
sys_close_bad(o, fd) == ~(fd \in FDs /\ o[fd].open)

\* ::bind(fd, name): rejected on a descriptor that is not an open socket or
\* that already has a name; may be rejected for any other reason (ok = FALSE).
\* Port 0 asks for an ephemeral port, which the kernel chooses (eph).
sys_bind_ok(o, fd, ok) == ok /\ fd \in FDs /\ o[fd].open /\ ~o[fd].bound
sys_bind_os(o, fd, name, eph) ==
    [o EXCEPT ![fd].bound = TRUE,
              ![fd].name = IF WirePort(name) = 0
                           THEN [name EXCEPT !.port = PortBytes(eph)]
                           ELSE name]

\* sendto on a socket that has no name yet: the kernel binds it to an
\* ephemeral port of the wildcard address.
sys_sendto_os(o, fd, eph) ==
    IF o[fd].bound THEN o
    ELSE [o EXCEPT ![fd].bound = TRUE,
                   ![fd].name = [addr |-> <<0, 0, 0, 0>>, port |-> PortBytes(eph)]]

\* One system call, as recorded in syscalls.
Call(c, fd, name) == [call |-> c, fd |-> fd, name |-> name]

----------------------------------------------------------------------------
(* UDPSocket *)

ZeroAddr == [sin_family |-> "AF_UNSPEC", sin_port |-> 0, s_addr |-> <<0, 0, 0, 0>>]

\* A slot that holds no object (not constructed yet, or destroyed).
NoObject == [alive |-> FALSE, m_socket_fd |-> -1, m_is_bound |-> FALSE,
             m_local_addr |-> ZeroAddr, m_remote_addr |-> ZeroAddr]

\* UDPSocket::is_valid
is_valid(s) == s.m_socket_fd # -1

\* UDPSocket::get_fd
get_fd(s) == s.m_socket_fd

\* The effect of a method on its object (self), on the other object of a move
\* (other), on the kernel (os, bad) and the system calls made (calls).
Effect(self, other, o, bad, calls) ==
    [self |-> self, other |-> other, os |-> o, bad |-> bad, calls |-> calls]

\* UDPSocket::UDPSocket(): memset both addresses, then socket().
UDPSocket_ctor(o, ok) ==
    LET fd == sys_socket_fd(o, ok) IN
    Effect([alive |-> TRUE, m_socket_fd |-> fd, m_is_bound |-> FALSE,
            m_local_addr |-> ZeroAddr, m_remote_addr |-> ZeroAddr],
           NoObject, sys_socket_os(o, fd), FALSE, <<Call("socket", fd, NoName)>>)

\* A close() that releases the descriptor but keeps it in m_socket_fd.
UDPSocket_close_keeps_fd(s, o) ==
    IF s.m_socket_fd # -1
    THEN Effect([s EXCEPT !.m_is_bound = FALSE], NoObject,
                sys_close_os(o, s.m_socket_fd), sys_close_bad(o, s.m_socket_fd),
                <<Call("close", s.m_socket_fd, NoName)>>)
    ELSE Effect(s, NoObject, o, FALSE, <<>>)

\* A close() that releases the descriptor but leaves the bound flag set.
UDPSocket_close_keeps_bound(s, o) ==
    IF s.m_socket_fd # -1
    THEN Effect([s EXCEPT !.m_socket_fd = -1], NoObject,
                sys_close_os(o, s.m_socket_fd), sys_close_bad(o, s.m_socket_fd),
                <<Call("close", s.m_socket_fd, NoName)>>)
    ELSE Effect(s, NoObject, o, FALSE, <<>>)

\* UDPSocket::close
UDPSocket_close(s, o) ==
    IF s.m_socket_fd # -1
    THEN Effect([s EXCEPT !.m_socket_fd = -1, !.m_is_bound = FALSE], NoObject,
                sys_close_os(o, s.m_socket_fd), sys_close_bad(o, s.m_socket_fd),
                <<Call("close", s.m_socket_fd, NoName)>>)
    ELSE Effect(s, NoObject, o, FALSE, <<>>)

\* UDPSocket::~UDPSocket: close(), after which the object is gone.
UDPSocket_dtor(s, o) ==
    LET c == UDPSocket_close(s, o) IN [c EXCEPT !.self = NoObject]

\* A move constructor that leaves the descriptor in the source as well.
UDPSocket_move_ctor_shares_fd(other, o) ==
    Effect([alive |-> TRUE, m_socket_fd |-> other.m_socket_fd,
            m_is_bound |-> other.m_is_bound,
            m_local_addr |-> other.m_local_addr,
            m_remote_addr |-> other.m_remote_addr],
           [other EXCEPT !.m_is_bound = FALSE],
           o, FALSE, <<>>)

\* A move constructor that leaves the bound flag of the source as it is.
UDPSocket_move_ctor_keeps_source_bound(other, o) ==
    Effect([alive |-> TRUE, m_socket_fd |-> other.m_socket_fd,
            m_is_bound |-> other.m_is_bound,
            m_local_addr |-> other.m_local_addr,
            m_remote_addr |-> other.m_remote_addr],
           [other EXCEPT !.m_socket_fd = -1],
           o, FALSE, <<>>)

\* UDPSocket::UDPSocket(UDPSocket &&other)
UDPSocket_move_ctor(other, o) ==
    Effect([alive |-> TRUE, m_socket_fd |-> other.m_socket_fd,
            m_is_bound |-> other.m_is_bound,
            m_local_addr |-> other.m_local_addr,
            m_remote_addr |-> other.m_remote_addr],
           [other EXCEPT !.m_socket_fd = -1, !.m_is_bound = FALSE],
           o, FALSE, <<>>)

\* A move assignment that does not carry the recorded remote address over.
UDPSocket_move_assign_drops_remote(s, other, same, o) ==
    IF same THEN Effect(s, s, o, FALSE, <<>>)
    ELSE
    LET c == UDPSocket_close(s, o) IN
    Effect([c.self EXCEPT !.m_socket_fd = other.m_socket_fd,
                          !.m_local_addr = other.m_local_addr,
                          !.m_is_bound = other.m_is_bound],
           [other EXCEPT !.m_socket_fd = -1, !.m_is_bound = FALSE],
           c.os, c.bad, c.calls)

\* A move assignment without the test this != &other.
UDPSocket_move_assign_no_self_test(s, other, same, o) ==
    LET c == UDPSocket_close(s, o)
        src == IF same THEN c.self ELSE other
        moved == [src EXCEPT !.m_socket_fd = -1, !.m_is_bound = FALSE]
    IN  Effect(IF same THEN moved
               ELSE [c.self EXCEPT !.m_socket_fd = src.m_socket_fd,
                                   !.m_local_addr = src.m_local_addr,
                                   !.m_remote_addr = src.m_remote_addr,
                                   !.m_is_bound = src.m_is_bound],
               moved, c.os, c.bad, c.calls)

\* UDPSocket::operator=(UDPSocket &&other); same: this == &other.  On
\* self-assignment self and other are the one object, unchanged.
UDPSocket_move_assign(s, other, same, o) ==
    IF same THEN Effect(s, s, o, FALSE, <<>>)
    ELSE
    LET c == UDPSocket_close(s, o) IN
    Effect([c.self EXCEPT !.m_socket_fd = other.m_socket_fd,
                          !.m_local_addr = other.m_local_addr,
                          !.m_remote_addr = other.m_remote_addr,
                          !.m_is_bound = other.m_is_bound],
           [other EXCEPT !.m_socket_fd = -1, !.m_is_bound = FALSE],
           c.os, c.bad, c.calls)

\* What a fallible method leaves and returns: the object, the kernel, the
\* system calls made, std::expected's error kind ("ok" when it holds a value)
\* and the value (n: a byte count; sender_address, sender_port).
NoAddress == <<>>
Reply(self, o, calls, res, n, sender_address, sender_port) ==
    [self |-> self, os |-> o, calls |-> calls, res |-> res, n |-> n,
     sender_address |-> sender_address, sender_port |-> sender_port]
Fail(self, o, calls, res) == Reply(self, o, calls, res, -1, NoAddress, -1)
Done(self, o, calls) == Reply(self, o, calls, "ok", -1, NoAddress, -1)

\* The struct sockaddr_in that bind, connect and send_to fill in.
MakeSockaddr(address, port) ==
    [sin_family |-> "AF_INET", sin_port |-> htons(port),
     s_addr |-> htonl(to_uint32(address))]

\* A bind that sets the bound flag before it knows ::bind's answer.
UDPSocket_bind_flag_early(s, o, address, port, ok, eph) ==
    IF ~is_valid(s) THEN Fail(s, o, <<>>, "kInvalidSocket")
    ELSE
    LET s1 == [s EXCEPT !.m_local_addr = MakeSockaddr(address, port),
                        !.m_is_bound = TRUE]
        name == WireName(s1.m_local_addr)
        calls == <<Call("bind", s.m_socket_fd, name)>>
    IN  IF ~sys_bind_ok(o, s.m_socket_fd, ok)
        THEN Fail(s1, o, calls, "kBindFailed")
        ELSE Done(s1, sys_bind_os(o, s.m_socket_fd, name, eph), calls)

\* A bind that gives the descriptor up when ::bind fails.
UDPSocket_bind_drops_fd_on_failure(s, o, address, port, ok, eph) ==
    IF ~is_valid(s) THEN Fail(s, o, <<>>, "kInvalidSocket")
    ELSE
    LET s1 == [s EXCEPT !.m_local_addr = MakeSockaddr(address, port)]
        name == WireName(s1.m_local_addr)
        calls == <<Call("bind", s.m_socket_fd, name)>>
    IN  IF ~sys_bind_ok(o, s.m_socket_fd, ok)
        THEN Fail([s1 EXCEPT !.m_socket_fd = -1], o, calls, "kBindFailed")
        ELSE Done([s1 EXCEPT !.m_is_bound = TRUE],
                  sys_bind_os(o, s.m_socket_fd, name, eph), calls)

\* UDPSocket::bind.  ok, eph: the kernel's answer to ::bind.
UDPSocket_bind(s, o, address, port, ok, eph) ==
    IF ~is_valid(s) THEN Fail(s, o, <<>>, "kInvalidSocket")
    ELSE
    LET s1 == [s EXCEPT !.m_local_addr = MakeSockaddr(address, port)]
        name == WireName(s1.m_local_addr)
        calls == <<Call("bind", s.m_socket_fd, name)>>
    IN  IF ~sys_bind_ok(o, s.m_socket_fd, ok)
        THEN Fail(s1, o, calls, "kBindFailed")
        ELSE Done([s1 EXCEPT !.m_is_bound = TRUE],
                  sys_bind_os(o, s.m_socket_fd, name, eph), calls)

\* A connect that marks the object bound once ::connect succeeded.
UDPSocket_connect_sets_bound(s, o, address, port, ok) ==
    IF ~is_valid(s) THEN Fail(s, o, <<>>, "kInvalidSocket")
    ELSE
    LET s1 == [s EXCEPT !.m_remote_addr = MakeSockaddr(address, port)]
        calls == <<Call("connect", s.m_socket_fd, WireName(s1.m_remote_addr))>>
    IN  IF ~ok THEN Fail(s1, o, calls, "kConnectFailed")
        ELSE Done([s1 EXCEPT !.m_is_bound = TRUE], o, calls)

\* UDPSocket::connect.  ok: the kernel's answer to ::connect.
UDPSocket_connect(s, o, address, port, ok) ==
    IF ~is_valid(s) THEN Fail(s, o, <<>>, "kInvalidSocket")
    ELSE
    LET s1 == [s EXCEPT !.m_remote_addr = MakeSockaddr(address, port)]
        calls == <<Call("connect", s.m_socket_fd, WireName(s1.m_remote_addr))>>
    IN  IF ~ok THEN Fail(s1, o, calls, "kConnectFailed")
        ELSE Done(s1, o, calls)

\* A send_to that builds the destination in m_local_addr instead of a local.
UDPSocket_send_to_in_local_addr(s, o, size, address, port, ok, eph) ==
    IF ~is_valid(s) THEN Fail(s, o, <<>>, "kInvalidSocket")
    ELSE
    LET s1 == [s EXCEPT !.m_local_addr = MakeSockaddr(address, port)]
        calls == <<Call("sendto", s.m_socket_fd, WireName(s1.m_local_addr))>>
    IN  IF ~ok THEN Fail(s1, o, calls, "kSendFailed")
        ELSE Reply(s1, sys_sendto_os(o, s.m_socket_fd, eph), calls, "ok", size,
                   NoAddress, -1)

\* A send_to that refuses an object that is not bound.
UDPSocket_send_to_needs_bind(s, o, size, address, port, ok, eph) ==
    IF ~is_valid(s) THEN Fail(s, o, <<>>, "kInvalidSocket")
    ELSE IF ~s.m_is_bound THEN Fail(s, o, <<>>, "kNotBound")
    ELSE
    LET dest_addr == MakeSockaddr(address, port)
        calls == <<Call("sendto", s.m_socket_fd, WireName(dest_addr))>>
    IN  IF ~ok THEN Fail(s, o, calls, "kSendFailed")
        ELSE Reply(s, sys_sendto_os(o, s.m_socket_fd, eph), calls, "ok", size,
                   NoAddress, -1)

\* UDPSocket::send_to.  ok: sendto did not return -1.
UDPSocket_send_to(s, o, size, address, port, ok, eph) ==
    IF ~is_valid(s) THEN Fail(s, o, <<>>, "kInvalidSocket")
    ELSE
    LET dest_addr == MakeSockaddr(address, port)
        calls == <<Call("sendto", s.m_socket_fd, WireName(dest_addr))>>
    IN  IF ~ok THEN Fail(s, o, calls, "kSendFailed")
        ELSE Reply(s, sys_sendto_os(o, s.m_socket_fd, eph), calls, "ok", size,
                   NoAddress, -1)

\* A receive_from without the is_valid() test.
UDPSocket_receive_from_unchecked(s, o, size, ok, from) ==
    LET wire == [addr |-> from.addr, port |-> PortBytes(from.port)]
        sender_addr == [sin_family |-> "AF_INET", sin_port |-> FromMem16(wire.port),
                        s_addr |-> FromMem32(wire.addr)]
    IN  IF ~(ok /\ is_valid(s))
        THEN Fail(s, o, <<Call("recvfrom", s.m_socket_fd, NoName)>>, "kReceiveFailed")
        ELSE Reply(s, o, <<Call("recvfrom", s.m_socket_fd, wire)>>, "ok", size,
                   IPv4Address_from_uint32(ntohl(sender_addr.s_addr)),
                   ntohs(sender_addr.sin_port))

\* A receive_from that reports the sender's address bytes in wire order.
UDPSocket_receive_from_wire_order(s, o, size, ok, from) ==
    IF ~is_valid(s) THEN Fail(s, o, <<>>, "kInvalidSocket")
    ELSE
    LET wire == [addr |-> from.addr, port |-> PortBytes(from.port)]
        sender_addr == [sin_family |-> "AF_INET", sin_port |-> FromMem16(wire.port),
                        s_addr |-> FromMem32(wire.addr)]
    IN  IF ~ok
        THEN Fail(s, o, <<Call("recvfrom", s.m_socket_fd, NoName)>>, "kReceiveFailed")
        ELSE Reply(s, o, <<Call("recvfrom", s.m_socket_fd, wire)>>, "ok", size,
                   MemBytes32(sender_addr.s_addr),
                   ntohs(sender_addr.sin_port))

\* UDPSocket::receive_from.  ok: recvfrom did not return -1; from: the sender
\* of the datagram, which the kernel writes into sender_addr.
UDPSocket_receive_from(s, o, size, ok, from) ==
    IF ~is_valid(s) THEN Fail(s, o, <<>>, "kInvalidSocket")
    ELSE
    LET wire == [addr |-> from.addr, port |-> PortBytes(from.port)]
        sender_addr == [sin_family |-> "AF_INET", sin_port |-> FromMem16(wire.port),
                        s_addr |-> FromMem32(wire.addr)]
    IN  IF ~ok
        THEN Fail(s, o, <<Call("recvfrom", s.m_socket_fd, NoName)>>, "kReceiveFailed")
        ELSE Reply(s, o, <<Call("recvfrom", s.m_socket_fd, wire)>>, "ok", size,
                   IPv4Address_from_uint32(ntohl(sender_addr.s_addr)),
                   ntohs(sender_addr.sin_port))

\* UDPSocket::get_local_address / get_local_port / get_remote_address /
\* get_remote_port: the error kind, and the value when there is one.
get_local_address(s) ==
    IF ~s.m_is_bound THEN [res |-> "kNotBound", val |-> NoAddress]
    ELSE [res |-> "ok", val |-> IPv4Address_from_uint32(ntohl(s.m_local_addr.s_addr))]
get_local_port(s) ==
    IF ~s.m_is_bound THEN [res |-> "kNotBound", val |-> -1]
    ELSE [res |-> "ok", val |-> ntohs(s.m_local_addr.sin_port)]
get_remote_address(s) ==
    [res |-> "ok", val |-> IPv4Address_from_uint32(ntohl(s.m_remote_addr.s_addr))]
get_remote_port(s) ==
    [res |-> "ok", val |-> ntohs(s.m_remote_addr.sin_port)]

\* A set_reuse_address that does not look at what setsockopt returned.
UDPSocket_set_reuse_address_unchecked(s, o, enable, ok) ==
    IF ~is_valid(s) THEN Fail(s, o, <<>>, "kInvalidSocket")
    ELSE
    LET calls == <<Call("setsockopt SO_REUSEADDR", s.m_socket_fd, NoName)>> IN
    IF ~ok THEN Done(s, o, calls)
    ELSE Done(s, [o EXCEPT ![s.m_socket_fd].reuseaddr = enable], calls)

\* UDPSocket::set_broadcast / set_reuse_address.  ok: setsockopt returned 0.
UDPSocket_set_broadcast(s, o, enable, ok) ==
    IF ~is_valid(s) THEN Fail(s, o, <<>>, "kInvalidSocket")
    ELSE
    LET calls == <<Call("setsockopt SO_BROADCAST", s.m_socket_fd, NoName)>> IN
    IF ~ok THEN Fail(s, o, calls, "kSocketOptionFailed")
    ELSE Done(s, [o EXCEPT ![s.m_socket_fd].broadcast = enable], calls)
UDPSocket_set_reuse_address(s, o, enable, ok) ==
    IF ~is_valid(s) THEN Fail(s, o, <<>>, "kInvalidSocket")
    ELSE
    LET calls == <<Call("setsockopt SO_REUSEADDR", s.m_socket_fd, NoName)>> IN
    IF ~ok THEN Fail(s, o, calls, "kSocketOptionFailed")
    ELSE Done(s, [o EXCEPT ![s.m_socket_fd].reuseaddr = enable], calls)

\* A set_timeout that sets SO_RCVTIMEO only.
UDPSocket_set_timeout_receive_only(s, o, seconds, microseconds, okRcv, okSnd) ==
    IF ~is_valid(s) THEN Fail(s, o, <<>>, "kInvalidSocket")
    ELSE
    LET timeout == [tv_sec |-> seconds, tv_usec |-> microseconds]
        rcv == Call("setsockopt SO_RCVTIMEO", s.m_socket_fd, NoName)
    IN  IF ~okRcv THEN Fail(s, o, <<rcv>>, "kSocketOptionFailed")
        ELSE Done(s, [o EXCEPT ![s.m_socket_fd].rcvtimeo = timeout], <<rcv>>)

\* A set_timeout that sets SO_SNDTIMEO only.
UDPSocket_set_timeout_send_only(s, o, seconds, microseconds, okRcv, okSnd) ==
    IF ~is_valid(s) THEN Fail(s, o, <<>>, "kInvalidSocket")
    ELSE
    LET timeout == [tv_sec |-> seconds, tv_usec |-> microseconds]
        snd == Call("setsockopt SO_SNDTIMEO", s.m_socket_fd, NoName)
    IN  IF ~okSnd THEN Fail(s, o, <<snd>>, "kSocketOptionFailed")
        ELSE Done(s, [o EXCEPT ![s.m_socket_fd].sndtimeo = timeout], <<snd>>)

\* A set_timeout that sets SO_SNDTIMEO first and SO_RCVTIMEO second.
UDPSocket_set_timeout_send_first(s, o, seconds, microseconds, okRcv, okSnd) ==
    IF ~is_valid(s) THEN Fail(s, o, <<>>, "kInvalidSocket")
    ELSE
    LET timeout == [tv_sec |-> seconds, tv_usec |-> microseconds]
        rcv == Call("setsockopt SO_RCVTIMEO", s.m_socket_fd, NoName)
        snd == Call("setsockopt SO_SNDTIMEO", s.m_socket_fd, NoName)
        o1 == [o EXCEPT ![s.m_socket_fd].sndtimeo = timeout]
    IN  IF ~okSnd THEN Fail(s, o, <<snd>>, "kSocketOptionFailed")
        ELSE IF ~okRcv THEN Fail(s, o1, <<snd, rcv>>, "kSocketOptionFailed")
        ELSE Done(s, [o1 EXCEPT ![s.m_socket_fd].rcvtimeo = timeout], <<snd, rcv>>)

\* UDPSocket::set_timeout.  okRcv, okSnd: the two setsockopt calls returned 0;
\* the second is made only if the first succeeded (||).
UDPSocket_set_timeout(s, o, seconds, microseconds, okRcv, okSnd) ==
    IF ~is_valid(s) THEN Fail(s, o, <<>>, "kInvalidSocket")
    ELSE
    LET timeout == [tv_sec |-> seconds, tv_usec |-> microseconds]
        rcv == Call("setsockopt SO_RCVTIMEO", s.m_socket_fd, NoName)
        snd == Call("setsockopt SO_SNDTIMEO", s.m_socket_fd, NoName)
        o1 == [o EXCEPT ![s.m_socket_fd].rcvtimeo = timeout]
    IN  IF ~okRcv THEN Fail(s, o, <<rcv>>, "kSocketOptionFailed")
        ELSE IF ~okSnd THEN Fail(s, o1, <<rcv, snd>>, "kSocketOptionFailed")
        ELSE Done(s, [o1 EXCEPT ![s.m_socket_fd].sndtimeo = timeout], <<rcv, snd>>)

\* UDPSocket::create: the local object is constructed; if it is valid it is
\* moved into the returned std::expected (res.self), and the local object is
\* destroyed on return in either case.
UDPSocket_create(o, ok) ==
    LET socket == UDPSocket_ctor(o, ok) IN
    IF ~is_valid(socket.self)
    THEN LET d == UDPSocket_dtor(socket.self, socket.os) IN
         [self |-> NoObject, os |-> d.os, bad |-> d.bad,
          calls |-> socket.calls \o d.calls, res |-> "kInvalidSocket"]
    ELSE LET m == UDPSocket_move_ctor(socket.self, socket.os)
             d == UDPSocket_dtor(m.other, m.os)
         IN  [self |-> m.self, os |-> d.os, bad |-> d.bad,
              calls |-> socket.calls \o d.calls, res |-> "ok"]

----------------------------------------------------------------------------
(* The caller: one action per call *)

\* What a method that returns nothing, or that succeeded without a value,
\* leaves in ret.
NoValue == [res |-> "ok", n |-> -1, sender_address |-> NoAddress, sender_port |-> -1]

\* The call record: the method, the object it is called on (h), the source of
\* a move (other) and the arguments.
NoCall == [op |-> "none", h |-> 0, other |-> 0, address |-> NoAddress, port |-> -1,
           size |-> -1, enable |-> FALSE, timeout |-> NoTimeout]
Invoke(op, h) == [NoCall EXCEPT !.op = op, !.h = h]

Init ==
    /\ littleEndian \in BOOLEAN
    /\ handles = [h \in Handles |-> NoObject]
    /\ os = [fd \in FDs |-> ClosedFd]
    /\ badClose = FALSE
    /\ call = NoCall
    /\ ret = NoValue
    /\ syscalls = <<>>

\* auto r = UDPSocket::create(); on success slot h holds the new object.
create(h) ==
    /\ ~handles[h].alive
    /\ \E ok \in BOOLEAN :
          LET r == UDPSocket_create(os, ok) IN
          /\ handles' = [handles EXCEPT ![h] = r.self]
          /\ os' = r.os
          /\ badClose' = (badClose \/ r.bad)
          /\ call' = Invoke("create", h)
          /\ ret' = [NoValue EXCEPT !.res = r.res]
          /\ syscalls' = r.calls
    /\ UNCHANGED littleEndian

\* UDPSocket d(std::move(s));
move_construct(d, s) ==
    /\ d # s
    /\ ~handles[d].alive
    /\ handles[s].alive
    /\ LET e == UDPSocket_move_ctor(handles[s], os) IN
          /\ handles' = [handles EXCEPT ![d] = e.self, ![s] = e.other]
          /\ os' = e.os
          /\ badClose' = (badClose \/ e.bad)
          /\ call' = [Invoke("move_construct", d) EXCEPT !.other = s]
          /\ ret' = NoValue
          /\ syscalls' = e.calls
    /\ UNCHANGED littleEndian

\* d = std::move(s); d and s may be the same object.
move_assign(d, s) ==
    /\ handles[d].alive
    /\ handles[s].alive
    /\ LET e == UDPSocket_move_assign(handles[d], handles[s], d = s, os) IN
          /\ handles' = IF d = s THEN [handles EXCEPT ![d] = e.self]
                        ELSE [handles EXCEPT ![d] = e.self, ![s] = e.other]
          /\ os' = e.os
          /\ badClose' = (badClose \/ e.bad)
          /\ call' = [Invoke("move_assign", d) EXCEPT !.other = s]
          /\ ret' = NoValue
          /\ syscalls' = e.calls
    /\ UNCHANGED littleEndian

\* h.close();
close(h) ==
    /\ handles[h].alive
    /\ LET e == UDPSocket_close(handles[h], os) IN
          /\ handles' = [handles EXCEPT ![h] = e.self]
          /\ os' = e.os
          /\ badClose' = (badClose \/ e.bad)
          /\ call' = Invoke("close", h)
          /\ ret' = NoValue
          /\ syscalls' = e.calls
    /\ UNCHANGED littleEndian

\* The object in slot h goes out of scope.
destroy(h) ==
    /\ handles[h].alive
    /\ LET e == UDPSocket_dtor(handles[h], os) IN
          /\ handles' = [handles EXCEPT ![h] = e.self]
          /\ os' = e.os
          /\ badClose' = (badClose \/ e.bad)
          /\ call' = Invoke("destroy", h)
          /\ ret' = NoValue
          /\ syscalls' = e.calls
    /\ UNCHANGED littleEndian

\* The common part of the calls of fallible methods: r is the method's Reply.
Return(c, r) ==
    /\ call' = c
    /\ handles' = [handles EXCEPT ![c.h] = r.self]
    /\ os' = r.os
    /\ ret' = [res |-> r.res, n |-> r.n, sender_address |-> r.sender_address,
               sender_port |-> r.sender_port]
    /\ syscalls' = r.calls
    /\ UNCHANGED <<littleEndian, badClose>>

\* h.bind(address, port);
bind(h, address, port) ==
    /\ handles[h].alive
    /\ \E ok \in BOOLEAN, eph \in EphemeralPorts :
          Return([Invoke("bind", h) EXCEPT !.address = address, !.port = port],
                 UDPSocket_bind(handles[h], os, address, port, ok, eph))

\* h.connect(address, port);
connect(h, address, port) ==
    /\ handles[h].alive
    /\ \E ok \in BOOLEAN :
          Return([Invoke("connect", h) EXCEPT !.address = address, !.port = port],
                 UDPSocket_connect(handles[h], os, address, port, ok))

\* h.send_to(data, size, address, port);
send_to(h, size, address, port) ==
    /\ handles[h].alive
    /\ \E ok \in BOOLEAN, eph \in EphemeralPorts :
          Return([Invoke("send_to", h) EXCEPT !.size = size, !.address = address,
                                              !.port = port],
                 UDPSocket_send_to(handles[h], os, size, address, port, ok, eph))

\* h.receive_from(buffer, size);
receive_from(h, size) ==
    /\ handles[h].alive
    /\ \E ok \in BOOLEAN, from \in Senders :
          Return([Invoke("receive_from", h) EXCEPT !.size = size],
                 UDPSocket_receive_from(handles[h], os, size, ok, from))

\* h.set_broadcast(enable);
set_broadcast(h, enable) ==
    /\ handles[h].alive
    /\ \E ok \in BOOLEAN :
          Return([Invoke("set_broadcast", h) EXCEPT !.enable = enable],
                 UDPSocket_set_broadcast(handles[h], os, enable, ok))

\* h.set_reuse_address(enable);
set_reuse_address(h, enable) ==
    /\ handles[h].alive
    /\ \E ok \in BOOLEAN :
          Return([Invoke("set_reuse_address", h) EXCEPT !.enable = enable],
                 UDPSocket_set_reuse_address(handles[h], os, enable, ok))

\* h.set_timeout(seconds, microseconds);
set_timeout(h, seconds, microseconds) ==
    /\ handles[h].alive
    /\ \E okRcv \in BOOLEAN, okSnd \in BOOLEAN :
          Return([Invoke("set_timeout", h) EXCEPT
                    !.timeout = [tv_sec |-> seconds, tv_usec |-> microseconds]],
                 UDPSocket_set_timeout(handles[h], os, seconds, microseconds,
                                       okRcv, okSnd))

\* receive_from seen as the two steps it takes when recvfrom blocks: the
\* caller enters recvfrom on a valid object and waits (receive_from_enter);
\* the kernel ends the wait when a datagram arrives (recvfrom_delivers) or,
\* if the socket has a receive timeout, when that has run out
\* (recvfrom_times_out), and the method returns.  While the caller waits it
\* makes no other call.
Blocked == ret.res = "blocked"

receive_from_enter(h, size) ==
    /\ ~Blocked
    /\ handles[h].alive
    /\ is_valid(handles[h])
    /\ call' = [Invoke("receive_from", h) EXCEPT !.size = size]
    /\ ret' = [NoValue EXCEPT !.res = "blocked"]
    /\ syscalls' = <<>>
    /\ UNCHANGED <<littleEndian, handles, os, badClose>>

recvfrom_delivers ==
    /\ Blocked
    /\ \E from \in Senders :
          Return(call, UDPSocket_receive_from(handles[call.h], os, call.size,
                                              TRUE, from))

recvfrom_times_out ==
    /\ Blocked
    /\ os[handles[call.h].m_socket_fd].rcvtimeo # NoTimeout
    /\ \E from \in Senders :
          Return(call, UDPSocket_receive_from(handles[call.h], os, call.size,
                                              FALSE, from))

\* The reply to the datagram receive_from just returned:
\* h.send_to(data, n, result.sender_address, result.sender_port);
echo(h) ==
    /\ call.op = "receive_from" /\ call.h = h
    /\ ret.res = "ok"
    /\ send_to(h, ret.n, ret.sender_address, ret.sender_port)

\* What a call of a function of IPv4Address or of to_string(SocketError)
\* leaves: the argument in call, the result in ret.  The functions keep no
\* state, so one call of a run (call = NoCall before it) stands for any.
Evaluate(c, r) ==
    /\ call' = c
    /\ ret' = r
    /\ syscalls' = <<>>
    /\ UNCHANGED <<littleEndian, handles, os, badClose>>

\* IPv4Address(a.to_uint32()): word is the uint32_t, val the address made
\* from it.
convert(a) ==
    /\ call = NoCall
    /\ LET word == to_uint32(a) IN
       Evaluate([op |-> "to_uint32", address |-> a],
                [res |-> "ok", word |-> word, val |-> IPv4Address_from_uint32(word)])

\* IPv4Address::from_string(a.to_string()): text is the string.
format_parse(a) ==
    /\ call = NoCall
    /\ LET text == IPv4Address_to_string(a)
           r == IPv4Address_from_string(text)
       IN  Evaluate([op |-> "from_string", address |-> a],
                    [res |-> r.res, text |-> text, val |-> r.val])

\* r3::to_string(error)
describe(error) ==
    /\ call = NoCall
    /\ Evaluate([op |-> "to_string", error |-> error],
                [res |-> "ok", text |-> SocketError_to_string(error)])

----------------------------------------------------------------------------
(* Specifications: the calls a caller makes *)

\* Ownership: any number of objects (MaxHandles) created, moved, closed and
\* destroyed in any order; bind and connect give the objects a bound flag and
\* recorded addresses for the moves to carry.
OwnLocal == [address |-> kLocalHost, port |-> 8080]
OwnRemote == [address |-> <<192, 168, 1, 100>>, port |-> 9999]

Next ==
    \/ \E h \in Handles : create(h)
    \/ \E d \in Handles, s \in Handles : move_construct(d, s)
    \/ \E d \in Handles, s \in Handles : move_assign(d, s)
    \/ \E h \in Handles : close(h)
    \/ \E h \in Handles : destroy(h)
    \/ \E h \in Handles : bind(h, OwnLocal.address, OwnLocal.port)
    \/ \E h \in Handles : connect(h, OwnRemote.address, OwnRemote.port)

Spec == Init /\ [][Next]_vars

\* One endpoint: an object and a second one for it to be moved to and from
\* (two slots, whatever MaxHandles is), on which every method of the public
\* surface is called with every input.  The option setters are called with
\* the values the options have on a new socket; SpecOptions varies them.
EndpointHandles == {h \in Handles : h <= 2}

NextEndpoint ==
    \/ \E h \in EndpointHandles : create(h)
    \/ \E d \in EndpointHandles, s \in EndpointHandles : move_construct(d, s)
    \/ \E d \in EndpointHandles, s \in EndpointHandles : move_assign(d, s)
    \/ \E h \in EndpointHandles : close(h)
    \/ \E h \in EndpointHandles : destroy(h)
    \/ \E h \in EndpointHandles, a \in Addresses, p \in Ports : bind(h, a, p)
    \/ \E h \in EndpointHandles, n \in DatagramSizes, to \in Destinations :
          send_to(h, n, to.address, to.port)
    \/ \E h \in EndpointHandles, n \in DatagramSizes : receive_from(h, n)
    \/ \E h \in EndpointHandles : set_broadcast(h, FALSE)
    \/ \E h \in EndpointHandles : set_reuse_address(h, FALSE)
    \/ \E h \in EndpointHandles : set_timeout(h, NoTimeout.tv_sec, NoTimeout.tv_usec)

SpecEndpoint == Init /\ [][NextEndpoint]_vars

\* One object on which every fallible method is called with every input: its
\* options are set to every value, and its receive_from waits for a datagram
\* (on an object without descriptor it returns at once).  The kernel's timer
\* is fair: a wait with a receive timeout does not outlast it.
OptionHandles == {h \in Handles : h <= 1}

NextOptions ==
    \/ \E h \in OptionHandles : ~Blocked /\ create(h)
    \/ \E h \in OptionHandles : ~Blocked /\ close(h)
    \/ \E h \in OptionHandles : ~Blocked /\ destroy(h)
    \/ \E h \in OptionHandles, e \in BOOLEAN : ~Blocked /\ set_broadcast(h, e)
    \/ \E h \in OptionHandles, e \in BOOLEAN : ~Blocked /\ set_reuse_address(h, e)
    \/ \E h \in OptionHandles, tv \in Timeouts :
          ~Blocked /\ set_timeout(h, tv.tv_sec, tv.tv_usec)
    \/ \E h \in OptionHandles, a \in Addresses, p \in Ports : ~Blocked /\ bind(h, a, p)
    \/ \E h \in OptionHandles, n \in DatagramSizes, to \in Destinations :
          ~Blocked /\ send_to(h, n, to.address, to.port)
    \/ \E h \in OptionHandles, n \in DatagramSizes :
          ~Blocked /\ ~is_valid(handles[h]) /\ receive_from(h, n)
    \/ \E h \in OptionHandles, n \in DatagramSizes : receive_from_enter(h, n)
    \/ \E h \in OptionHandles : echo(h)
    \/ recvfrom_delivers
    \/ recvfrom_times_out

SpecOptions == Init /\ [][NextOptions]_vars /\ WF_vars(recvfrom_times_out)

\* The functions that compute a value from their argument alone, applied to
\* every argument, on a host of either byte order.
NextValues ==
    \/ \E a \in OctetQuads : convert(a)
    \/ \E a \in OctetQuads : format_parse(a)
    \/ \E e \in ErrorValues : describe(e)

SpecValues == Init /\ [][NextValues]_vars

----------------------------------------------------------------------------
(* Ownership of the descriptor *)

\* The live objects that hold descriptor fd.
Holders(fd) == {h \in Handles : handles[h].alive /\ handles[h].m_socket_fd = fd}

\* C1: every descriptor create() obtained is passed to ::close exactly once.
\* ::close is never called on a descriptor that is not open (not twice, not
\* by a moved-from or closed object); a descriptor that is open is held by
\* exactly one live object, so it is released once that object is closed or
\* destroyed and none is open when every object has been destroyed; and a
\* descriptor an object holds is open (nobody else released it).
C1_ClosedExactlyOnce ==
    /\ ~badClose
    /\ \A fd \in FDs : os[fd].open => Cardinality(Holders(fd)) = 1
    /\ \A h \in Handles : is_valid(handles[h]) => os[handles[h].m_socket_fd].open
    /\ (\A h \in Handles : ~handles[h].alive) => \A fd \in FDs : ~os[fd].open

\* Every object has been destroyed, the last one releasing its descriptor,
\* after an earlier move left the descriptor-less slots behind.
C1_Witness ==
    /\ \A h \in Handles : ~handles[h].alive
    /\ call.op = "destroy"
    /\ syscalls = <<Call("close", 1, NoName)>>

\* C2: no two distinct live valid objects hold the same descriptor.
C2_NoSharedDescriptor ==
    \A h1 \in Handles, h2 \in Handles :
        (h1 # h2 /\ handles[h1].alive /\ handles[h2].alive
         /\ is_valid(handles[h1]) /\ is_valid(handles[h2]))
        => handles[h1].m_socket_fd # handles[h2].m_socket_fd

\* Two live valid objects at once, both bound, each with its own descriptor.
C2_Witness ==
    \E h1 \in Handles, h2 \in Handles :
        /\ h1 # h2
        /\ is_valid(handles[h1]) /\ is_valid(handles[h2])
        /\ handles[h1].m_is_bound /\ handles[h2].m_is_bound
        /\ handles[h1].m_socket_fd # handles[h2].m_socket_fd

\* The members a move carries over.
Carried(s) == <<s.m_socket_fd, s.m_is_bound, s.m_local_addr, s.m_remote_addr>>
\* No ::close(fd) among the system calls.
NotClosedBy(cs, fd) == \A i \in 1..Len(cs) : ~(cs[i].call = "close" /\ cs[i].fd = fd)

\* The step is a move from another object into call'.h.
IsMove(c) == c.op \in {"move_construct", "move_assign"} /\ c.h # c.other

\* C3: a move construction or move assignment from s into another object d
\* leaves d with s's descriptor, bound flag and recorded local and remote
\* address, leaves s invalid and not bound, and does not ::close the
\* descriptor that is carried over.
C3_MoveTransfers ==
    [][IsMove(call')
       => LET d == call'.h
              s == call'.other
          IN  /\ Carried(handles'[d]) = Carried(handles[s])
              /\ handles'[d].alive
              /\ ~is_valid(handles'[s])
              /\ ~handles'[s].m_is_bound
              /\ NotClosedBy(syscalls', handles[s].m_socket_fd)
              /\ is_valid(handles[s]) =>
                    os'[handles[s].m_socket_fd] = os[handles[s].m_socket_fd]]_vars

\* After a move of a bound, connected object: the destination is valid, bound
\* and has both recorded addresses, the source is alive and invalid, and the
\* move made no system call.
C3_Witness ==
    \E d \in Handles, s \in Handles :
        /\ d # s
        /\ handles[d].alive /\ is_valid(handles[d]) /\ handles[d].m_is_bound
        /\ handles[d].m_local_addr # ZeroAddr
        /\ handles[d].m_remote_addr # ZeroAddr
        /\ handles[s].alive /\ ~is_valid(handles[s])
        /\ handles[s].m_local_addr = handles[d].m_local_addr
        /\ call.op = "move_construct" /\ call.h = d /\ call.other = s
        /\ syscalls = <<>>

----------------------------------------------------------------------------
(* One endpoint: what its methods return and leave *)

\* The methods that need the descriptor, and those among them that are not bind.
IOMethods == {"send_to", "receive_from", "set_broadcast", "set_reuse_address",
              "set_timeout"}
DescriptorMethods == {"bind"} \cup IOMethods

\* What get_local_address() and get_local_port() return.
LocalOf(s) == <<get_local_address(s), get_local_port(s)>>
Value(v) == [res |-> "ok", val |-> v]
NotBoundReply == <<[res |-> "kNotBound", val |-> NoAddress], [res |-> "kNotBound", val |-> -1]>>

\* C4: on an object without descriptor (closed or moved from), bind, send_to,
\* receive_from, set_broadcast, set_reuse_address and set_timeout return
\* kInvalidSocket, make no system call and change no member of any object
\* nor the kernel's state.
C4_InvalidEndpointRejects ==
    [][(call'.op \in DescriptorMethods /\ ~is_valid(handles[call'.h]))
       => /\ ret'.res = "kInvalidSocket"
          /\ syscalls' = <<>>
          /\ handles' = handles
          /\ os' = os]_vars

\* set_timeout was just rejected on an object that was bound and then moved
\* from: it is alive, has no descriptor, and still has the address it recorded.
C4_Witness ==
    /\ call.op = "set_timeout"
    /\ handles[call.h].alive /\ ~is_valid(handles[call.h])
    /\ handles[call.h].m_local_addr # ZeroAddr
    /\ ret.res = "kInvalidSocket" /\ syscalls = <<>>
    /\ \E d \in Handles : handles[d].m_is_bound

\* C5: when bind(a, p) returns success, get_local_address() is a and
\* get_local_port() is p; and no send_to, receive_from or option-setting call
\* changes what the two return on a bound object.
C5_BoundAddressStable ==
    [][/\ (call'.op = "bind" /\ ret'.res = "ok")
          => LocalOf(handles'[call'.h]) = <<Value(call'.address), Value(call'.port)>>
       /\ call'.op \in IOMethods
          => \A g \in Handles :
                handles[g].m_is_bound
                => /\ LocalOf(handles'[g]) = LocalOf(handles[g])
                   /\ get_local_address(handles'[g]).res = "ok"]_vars

\* A datagram was just sent from an object bound to 127.0.0.1:8080, which
\* still reports that address.
C5_Witness ==
    /\ call.op = "send_to" /\ ret.res = "ok"
    /\ LocalOf(handles[call.h]) = <<Value(kLocalHost), Value(8080)>>

\* C6: a bind(a2, p2) that fails with kBindFailed on an object that is bound
\* leaves get_local_address() and get_local_port() as they were.
C6_FailedRebindKeepsAddress ==
    [][(call'.op = "bind" /\ ret'.res = "kBindFailed" /\ handles[call'.h].m_is_bound)
       => LocalOf(handles'[call'.h]) = LocalOf(handles[call'.h])]_vars

\* C7: after bind(a, 0) returned success, get_local_port() is the port the
\* kernel assigned, which is positive.
C7_EphemeralPortReported ==
    (call.op = "bind" /\ call.port = 0 /\ ret.res = "ok")
    => /\ get_local_port(handles[call.h]).val
             = WirePort(os[handles[call.h].m_socket_fd].name)
       /\ get_local_port(handles[call.h]).val > 0

\* C8: the socket address bind and send_to hand to the kernel for address
\* {A,B,C,D} and port p has the address bytes A,B,C,D in memory order and the
\* port in big-endian.
C8_NetworkByteOrder ==
    (call.op \in {"bind", "send_to"} /\ syscalls # <<>>)
    => syscalls[1].name = [addr |-> call.address, port |-> PortBytes(call.port)]

\* C9: the sender_address and sender_port receive_from returns are the
\* address (as a dotted quad, first byte on the wire first) and the port of
\* the datagram's sender.
C9_SenderReported ==
    (call.op = "receive_from" /\ ret.res = "ok")
    => /\ ret.sender_address = syscalls[1].name.addr
       /\ ret.sender_port = WirePort(syscalls[1].name)

\* C10: create() fails with kInvalidSocket, leaving no object, or leaves a
\* valid object that is not bound; and on an object that is not bound
\* get_local_address() and get_local_port() stay kNotBound across every
\* send_to, receive_from and option-setting call and every bind that does not
\* succeed.
C10_UnboundUntilBind ==
    [][/\ call'.op = "create"
          => \/ ret'.res = "kInvalidSocket" /\ ~handles'[call'.h].alive
             \/ /\ ret'.res = "ok"
                /\ handles'[call'.h].alive /\ is_valid(handles'[call'.h])
                /\ LocalOf(handles'[call'.h]) = NotBoundReply
       /\ (call'.op \in IOMethods \/ (call'.op = "bind" /\ ret'.res # "ok"))
          => \A g \in Handles :
                (handles[g].alive /\ ~handles[g].m_is_bound)
                => LocalOf(handles'[g]) = NotBoundReply]_vars

\* bind was just rejected by the kernel on a valid object that was never
\* bound: the address is in m_local_addr, and the object reports kNotBound.
C10_Witness ==
    /\ call.op = "bind" /\ ret.res = "kBindFailed"
    /\ is_valid(handles[call.h]) /\ ~handles[call.h].m_is_bound
    /\ LocalOf(handles[call.h]) = NotBoundReply

----------------------------------------------------------------------------
(* The states of an endpoint *)

\* C11: close() leaves the object without descriptor and not bound, whatever
\* state it was in; and a close() that follows a close() of the same object,
\* like every close() of an object that has no descriptor, makes no system
\* call and changes neither the object, nor any other, nor the kernel.
C11_CloseIdempotent ==
    [][call'.op = "close"
       => /\ ~is_valid(handles'[call'.h])
          /\ ~handles'[call'.h].m_is_bound
          /\ handles'[call'.h].alive
          /\ ((call.op = "close" /\ call.h = call'.h) => ~is_valid(handles[call'.h]))
          /\ ~is_valid(handles[call'.h])
             => /\ handles' = handles
                /\ os' = os
                /\ syscalls' = <<>>]_vars

\* close() was just called on an object that had been bound and closed
\* before: no system call was made and the object is as the first close()
\* left it.
C11_Witness ==
    /\ call.op = "close" /\ syscalls = <<>>
    /\ handles[call.h].alive /\ ~is_valid(handles[call.h])
    /\ ~handles[call.h].m_is_bound
    /\ handles[call.h].m_local_addr # ZeroAddr
    /\ \A fd \in FDs : ~os[fd].open

\* C12 as stated: every bind that fails with kBindFailed leaves the object
\* valid, not bound, and get_local_address() and get_local_port() kNotBound.
C12_FailedBindLeavesUnbound ==
    [][(call'.op = "bind" /\ ret'.res = "kBindFailed")
       => /\ is_valid(handles'[call'.h])
          /\ ~handles'[call'.h].m_is_bound
          /\ LocalOf(handles'[call'.h]) = NotBoundReply]_vars

\* C12: a bind that fails with kBindFailed leaves the object valid, with the
\* descriptor it had, and leaves the bound flag as it was: an object that was
\* not bound is not bound afterwards and its getters return kNotBound; an
\* object that was bound stays bound, in the object as in the kernel.
C12_FailedBindKeepsState ==
    [][(call'.op = "bind" /\ ret'.res = "kBindFailed")
       => LET s == handles[call'.h]
              t == handles'[call'.h]
          IN  /\ is_valid(t)
              /\ t.m_socket_fd = s.m_socket_fd
              /\ t.m_is_bound = s.m_is_bound
              /\ os' = os
              /\ ~s.m_is_bound => LocalOf(t) = NotBoundReply
              /\ s.m_is_bound => get_local_address(t).res = "ok"]_vars

\* The kernel just rejected bind(192.168.1.100, 8080) on a new object: the
\* object is valid, neither it nor its descriptor is bound, and it reports
\* kNotBound.
C12_Witness ==
    /\ call.op = "bind" /\ ret.res = "kBindFailed"
    /\ call.address = <<192, 168, 1, 100>> /\ call.port = 8080
    /\ is_valid(handles[call.h])
    /\ ~os[handles[call.h].m_socket_fd].bound
    /\ get_local_port(handles[call.h]).res = "kNotBound"

\* The state of an object: "invalid" without descriptor, else "open-unbound"
\* or "open-bound" by the bound flag; "none" for a slot that holds no object.
StateOf(s) ==
    IF ~s.alive THEN "none"
    ELSE IF ~is_valid(s) THEN "invalid"
    ELSE IF s.m_is_bound THEN "open-bound"
    ELSE "open-unbound"

\* Object h exists before and after the step and its state differs.
Changes(h) ==
    /\ handles[h].alive /\ handles'[h].alive
    /\ StateOf(handles'[h]) # StateOf(handles[h])

\* The changes of state the state machine lists: a successful bind takes an
\* open-unbound object to open-bound; close (also the close() a move
\* assignment starts with on its target), and being moved from, take it to
\* invalid.
ListedChange(h) ==
    \/ /\ call'.op = "bind" /\ call'.h = h /\ ret'.res = "ok"
       /\ StateOf(handles[h]) = "open-unbound"
       /\ StateOf(handles'[h]) = "open-bound"
    \/ /\ call'.op \in {"close", "move_assign"} /\ call'.h = h
       /\ StateOf(handles'[h]) = "invalid"
    \/ /\ IsMove(call') /\ call'.other = h
       /\ StateOf(handles'[h]) = "invalid"

\* An object that create() or a move construction makes starts open-unbound
\* (create) or in the state of the object it was made from, and an object
\* without descriptor is never marked bound.
Starts ==
    /\ (call'.op = "create" /\ handles'[call'.h].alive)
       => StateOf(handles'[call'.h]) = "open-unbound"
    /\ \A h \in Handles : (handles'[h].alive /\ ~is_valid(handles'[h]))
                            => ~handles'[h].m_is_bound

\* C13 as stated: every change of an object's state is a successful bind
\* (open-unbound to open-bound), a close or being moved from (to invalid);
\* no step takes an open-bound object back to open-unbound, or an invalid
\* object to an open state.
C13_ListedTransitionsOnly ==
    [][/\ Starts
       /\ \A h \in Handles : Changes(h) => ListedChange(h)]_vars

\* C13: every change of an object's state is a successful bind (open-unbound
\* to open-bound), a close or being moved from (to invalid), or a move
\* assignment into the object, which gives it the state the source had; only
\* the last takes an open-bound object to open-unbound or an invalid one to
\* an open state.
C13_StateMachine ==
    [][/\ Starts
       /\ \A h \in Handles :
             Changes(h)
             => \/ ListedChange(h)
                \/ /\ call'.op = "move_assign" /\ IsMove(call') /\ call'.h = h
                   /\ StateOf(handles'[h]) = StateOf(handles[call'.other])]_vars

\* A bound object was just move-assigned into one that had been created and
\* closed: the target went from invalid to open-bound without a system call.
C13_Witness ==
    /\ call.op = "move_assign" /\ call.h # call.other
    /\ syscalls = <<>>
    /\ StateOf(handles[call.h]) = "open-bound"
    /\ StateOf(handles[call.other]) = "invalid"

\* C14: send_to on a valid object that is not bound goes to the kernel: it
\* hands the datagram to sendto and returns the byte count or kSendFailed,
\* not kNotBound or kInvalidSocket; whichever it returns, no member of the
\* object changes (bound flag false, recorded local address as it was), and
\* get_local_address() and get_local_port() return kNotBound after it.
C14_SendUnboundPermitted ==
    [][(call'.op = "send_to" /\ StateOf(handles[call'.h]) = "open-unbound")
       => /\ ret'.res \in {"ok", "kSendFailed"}
          /\ ret'.res = "ok" => ret'.n = call'.size
          /\ Len(syscalls') = 1 /\ syscalls'[1].call = "sendto"
          /\ syscalls'[1].fd = handles[call'.h].m_socket_fd
          /\ handles' = handles
          /\ ~handles'[call'.h].m_is_bound
          /\ LocalOf(handles'[call'.h]) = NotBoundReply]_vars

\* A datagram was just sent from a new object: the kernel gave the socket an
\* ephemeral port, and the object is still not bound and reports kNotBound.
C14_Witness ==
    /\ call.op = "send_to" /\ ret.res = "ok" /\ ret.n = call.size
    /\ StateOf(handles[call.h]) = "open-unbound"
    /\ os[handles[call.h].m_socket_fd].bound
    /\ handles[call.h].m_local_addr = ZeroAddr
    /\ LocalOf(handles[call.h]) = NotBoundReply

----------------------------------------------------------------------------
(* Socket options *)

\* The options of the descriptor object s holds.
OptionsOf(s) == os[s.m_socket_fd]

\* C15: when set_timeout(s, us) returns success, the descriptor's receive
\* timeout and its send timeout are both (s, us), and so equal to each other.
C15_TimeoutsSetTogether ==
    (call.op = "set_timeout" /\ ret.res = "ok")
    => /\ is_valid(handles[call.h])
       /\ OptionsOf(handles[call.h]).rcvtimeo = call.timeout
       /\ OptionsOf(handles[call.h]).sndtimeo = call.timeout

\* set_timeout(0, 100000) just succeeded on a descriptor: both timeouts are
\* 100 ms.
C15_Witness ==
    /\ call.op = "set_timeout" /\ ret.res = "ok"
    /\ call.timeout = [tv_sec |-> 0, tv_usec |-> 100000]
    /\ OptionsOf(handles[call.h]).sndtimeo = call.timeout
    /\ OptionsOf(handles[call.h]).rcvtimeo = call.timeout

\* The caller waits in receive_from on a descriptor that has a receive
\* timeout / that has none.
WaitsWithTimeout == Blocked /\ OptionsOf(handles[call.h]).rcvtimeo # NoTimeout
WaitsWithoutTimeout == Blocked /\ OptionsOf(handles[call.h]).rcvtimeo = NoTimeout

----------------------------------------------------------------------------
(* Error kinds *)

\* The error kinds each fallible method may return.
ErrorKinds ==
    [bind |-> {"kInvalidSocket", "kBindFailed"},
     send_to |-> {"kInvalidSocket", "kSendFailed"},
     receive_from |-> {"kInvalidSocket", "kReceiveFailed"},
     set_broadcast |-> {"kInvalidSocket", "kSocketOptionFailed"},
     set_reuse_address |-> {"kInvalidSocket", "kSocketOptionFailed"},
     set_timeout |-> {"kInvalidSocket", "kSocketOptionFailed"}]

\* The kind that stands for a failure of the method's system call.
OwnKind(op) == CHOOSE k \in ErrorKinds[op] : k # "kInvalidSocket"

\* No system call occurs twice among cs.
NoRetry(cs) ==
    \A i \in 1..Len(cs), j \in 1..Len(cs) : i # j => cs[i].call # cs[j].call

\* C17: a call of bind, send_to, receive_from, set_broadcast,
\* set_reuse_address or set_timeout returns success, kInvalidSocket (exactly
\* when the object has no descriptor) or the method's own kind and no other;
\* it makes each of its system calls at most once; it returns success only
\* if the kernel did what was asked (the socket got its name, the datagram
\* was taken or delivered, the option has the value asked for), and when it
\* returns its own kind after a bind, a send or an option call for one option
\* the kernel's state is as before.  get_local_address() and
\* get_local_port() return a value or kNotBound, and get_remote_address() and
\* get_remote_port() always return a value.
C17_ErrorKinds ==
    [][/\ (call'.op \in DOMAIN ErrorKinds /\ ~Blocked')
          => LET op == call'.op
                 s == handles[call'.h]
                 fd == s.m_socket_fd
             IN  /\ ret'.res \in {"ok"} \cup ErrorKinds[op]
                 /\ ret'.res = "kInvalidSocket" <=> ~is_valid(s)
                 /\ NoRetry(syscalls')
                 /\ is_valid(s) => Len(syscalls') >= 1
                 /\ (ret'.res = OwnKind(op) /\ op # "set_timeout") => os' = os
                 /\ (ret'.res = "ok" /\ op = "bind")
                    => ~os[fd].bound /\ os'[fd].bound
                 /\ (ret'.res = "ok" /\ op = "send_to") => os'[fd].bound
                 /\ (op = "receive_from" /\ is_valid(s))
                    => (ret'.res = "ok" <=> syscalls'[1].name # NoName)
                 /\ (ret'.res = "ok" /\ op = "set_broadcast")
                    => os'[fd].broadcast = call'.enable
                 /\ (ret'.res = "ok" /\ op = "set_reuse_address")
                    => os'[fd].reuseaddr = call'.enable
                 /\ (ret'.res = "ok" /\ op = "set_timeout")
                    => /\ os'[fd].rcvtimeo = call'.timeout
                       /\ os'[fd].sndtimeo = call'.timeout
       /\ \A h \in Handles :
             /\ get_local_address(handles'[h]).res \in {"ok", "kNotBound"}
             /\ get_local_port(handles'[h]).res \in {"ok", "kNotBound"}
             /\ get_remote_address(handles'[h]).res = "ok"
             /\ get_remote_port(handles'[h]).res = "ok"]_vars

\* setsockopt just refused SO_REUSEADDR: set_reuse_address(true) returned
\* kSocketOptionFailed after one system call and the option is still off.
C17_Witness ==
    /\ call.op = "set_reuse_address" /\ call.enable
    /\ ret.res = "kSocketOptionFailed"
    /\ Len(syscalls) = 1
    /\ ~OptionsOf(handles[call.h]).reuseaddr

----------------------------------------------------------------------------
(* Values: addresses and error descriptions *)

C19_StringRoundTrip ==
    call.op = "from_string"
    => /\ ret.res = "ok"
       /\ ret.val = call.address

\* What the claim says to_string(SocketError) returns for each enumerator.
Phrases ==
    [kInvalidSocket |-> "Invalid socket",
     kBindFailed |-> "Bind operation failed",
     kConnectFailed |-> "Connect operation failed",
     kSendFailed |-> "Send operation failed",
     kReceiveFailed |-> "Receive operation failed",
     kInvalidAddress |-> "Invalid address",
     kSocketOptionFailed |-> "Socket option operation failed",
     kNotBound |-> "Socket not bound",
     kAddressParseError |-> "Address parsing error"]

\* C20: to_string(SocketError) returns a phrase for every value: for each of
\* the first nine enumerators its own phrase, which no other of the nine has,
\* and "Unknown error" for kTrainOrderParseError and for every value that is
\* no enumerator.
C20_ErrorPhrases ==
    call.op = "to_string"
    => LET e == Enumerator(call.error) IN
       /\ e \in DOMAIN Phrases => ret.text = Phrases[e]
       /\ e \notin DOMAIN Phrases => ret.text = "Unknown error"
       /\ \A other \in ErrorValues :
             (other # call.error /\ Enumerator(other) \in DOMAIN Phrases
              /\ e \in DOMAIN Phrases)
             => SocketError_to_string(other) # ret.text

\* kAddressParseError, the last enumerator that has a phrase, was just
\* described.
C20_Witness ==
    /\ call.op = "to_string" /\ Enumerator(call.error) = "kAddressParseError"
    /\ ret.text = "Address parsing error"

----------------------------------------------------------------------------
(* Failed option calls *)

\* C21: when set_timeout(s, us) returns kSocketOptionFailed it has made the
\* SO_RCVTIMEO call alone, which failed, or the SO_RCVTIMEO call and then the
\* SO_SNDTIMEO call, which failed, and no further call to put a value back:
\* the send timeout is what it was before the call, and the receive timeout
\* is what it was (first case) or (s, us) (second case).  When set_broadcast
\* or set_reuse_address returns kSocketOptionFailed, the option, like all the
\* kernel's state, is what it was.
C21_FailedOptionKeepsPrior ==
    [][(call'.op \in {"set_timeout", "set_broadcast", "set_reuse_address"}
        /\ ret'.res = "kSocketOptionFailed")
       => LET fd == handles[call'.h].m_socket_fd
              rcv == Call("setsockopt SO_RCVTIMEO", fd, NoName)
              snd == Call("setsockopt SO_SNDTIMEO", fd, NoName)
          IN  /\ handles' = handles
              /\ call'.op = "set_timeout"
                 => /\ os'[fd].sndtimeo = os[fd].sndtimeo
                    /\ \/ syscalls' = <<rcv>> /\ os' = os
                       \/ /\ syscalls' = <<rcv, snd>>
                          /\ os' = [os EXCEPT ![fd].rcvtimeo = call'.timeout]
              /\ call'.op # "set_timeout"
                 => Len(syscalls') = 1 /\ os' = os]_vars

\* set_timeout(5, 0) just failed at its second system call on a descriptor
\* whose timeouts were both 100 ms: the receive timeout is 5 s, the send
\* timeout still 100 ms.
C21_Witness ==
    /\ call.op = "set_timeout" /\ ret.res = "kSocketOptionFailed"
    /\ call.timeout = [tv_sec |-> 5, tv_usec |-> 0]
    /\ Len(syscalls) = 2
    /\ OptionsOf(handles[call.h]).rcvtimeo = call.timeout
    /\ OptionsOf(handles[call.h]).sndtimeo = [tv_sec |-> 0, tv_usec |-> 100000]

----------------------------------------------------------------------------
(* The bound flag and the descriptor *)

\* C22: in every state, an object whose bound flag is set has a descriptor;
\* so get_local_address() and get_local_port() return a value only on a
\* valid object, and return kNotBound on every object without descriptor
\* (closed or moved from), whatever address it recorded before.
C22_BoundImpliesValid ==
    \A h \in Handles :
        handles[h].alive
        => /\ handles[h].m_is_bound => is_valid(handles[h])
           /\ get_local_address(handles[h]).res = "ok" => is_valid(handles[h])
           /\ get_local_port(handles[h]).res = "ok" => is_valid(handles[h])
           /\ ~is_valid(handles[h]) => LocalOf(handles[h]) = NotBoundReply

\* An object that was bound to 127.0.0.1:8080 was just closed: the address is
\* still in m_local_addr, and both getters return kNotBound.
C22_Witness ==
    /\ call.op = "close" /\ syscalls # <<>>
    /\ handles[call.h].alive /\ ~is_valid(handles[call.h])
    /\ handles[call.h].m_local_addr = MakeSockaddr(OwnLocal.address, OwnLocal.port)
    /\ LocalOf(handles[call.h]) = NotBoundReply

----------------------------------------------------------------------------
(* Echo *)

\* The step is a send_to whose destination is the sender_address and
\* sender_port that the receive_from before it returned.
IsEcho ==
    /\ call.op = "receive_from" /\ ret.res = "ok"
    /\ call'.op = "send_to" /\ call'.h = call.h
    /\ call'.address = ret.sender_address /\ call'.port = ret.sender_port

\* C23: when the sender_address and sender_port that receive_from returned
\* for a datagram are passed to send_to, the socket address sendto gets is
\* the one recvfrom gave for the datagram: the sender's address bytes in
\* network order and the sender's port.
C23_EchoRoundTrip ==
    [][IsEcho
       => /\ Len(syscalls') = 1
          /\ syscalls'[1].call = "sendto"
          /\ syscalls'[1].name = syscalls[1].name
          /\ WirePort(syscalls'[1].name) = ret.sender_port]_vars

\* The reply to a datagram from 10.0.2.15:8080 was just sent: receive_from
\* had reported {15,2,0,10}, and sendto got 10.0.2.15:8080.
C23_Witness ==
    /\ call.op = "send_to" /\ ret.res = "ok"
    /\ call.address = <<15, 2, 0, 10>> /\ call.port = 8080
    /\ syscalls = <<Call("sendto", handles[call.h].m_socket_fd,
                         [addr |-> <<10, 0, 2, 15>>, port |-> PortBytes(8080)])>>

----------------------------------------------------------------------------
(* Move assignment *)

\* C24: a move assignment of an object to itself makes no system call and
\* changes nothing: the object keeps descriptor, bound flag and recorded
\* addresses, and the descriptor stays open.  A move assignment into another
\* object d that holds a descriptor calls ::close on that descriptor, which
\* is open, once and makes no other system call, and d then holds the
\* descriptor of the source, which was not closed; into a d without
\* descriptor it makes no system call.
C24_MoveAssignReleasesOnce ==
    [][call'.op = "move_assign"
       => LET d == call'.h
              s == call'.other
              old == handles[d].m_socket_fd
          IN  IF d = s
              THEN /\ handles' = handles
                   /\ os' = os
                   /\ syscalls' = <<>>
                   /\ badClose' = badClose
              ELSE /\ handles'[d].m_socket_fd = handles[s].m_socket_fd
                   /\ is_valid(handles[d])
                      => /\ syscalls' = <<Call("close", old, NoName)>>
                         /\ os[old].open /\ ~os'[old].open
                         /\ old # handles[s].m_socket_fd
                         /\ badClose' = badClose
                         /\ \A fd \in FDs : fd # old => os'[fd] = os[fd]
                   /\ ~is_valid(handles[d])
                      => syscalls' = <<>> /\ os' = os]_vars

\* A bound object was just move-assigned into an object that held another
\* descriptor: that descriptor was closed, and the target holds the source's.
C24_Witness ==
    /\ call.op = "move_assign" /\ call.h # call.other
    /\ Len(syscalls) = 1 /\ syscalls[1].call = "close"
    /\ ~os[syscalls[1].fd].open
    /\ is_valid(handles[call.h]) /\ handles[call.h].m_is_bound
    /\ os[handles[call.h].m_socket_fd].open
    /\ ~is_valid(handles[call.other])

====
